---- MODULE Spec2Model ----
(***************************************************************************)
(* tinyhttp: a single HTTP/1.1 GET over a raw TCP connection               *)
(* (src/main.go, lines 1-253).  The model follows HttpGet and the          *)
(* functions it calls: the request it assembles, readHeaders, the          *)
(* dispatch on the display flags, readNonChunkedResponse and               *)
(* readChunkedResponse, each over a bufio.Reader whose buffer and          *)
(* underlying transport reads are modelled explicitly.                     *)
(*                                                                         *)
(* A byte is a one-character string; a Go string or []byte is a sequence   *)
(* of bytes.                                                               *)
(***************************************************************************)
EXTENDS Integers, Sequences, FiniteSets, TLC

\* ------------------------------------------------------------------ bounds

\* Capacity of the bufio.Reader buffer and of the identity-mode read buffer
\* (both 4096 bytes in the program), scaled down so that lines and chunks
\* longer than the buffer, and reads that fill it, occur in small streams.
\* Kept above 2 so that the two-byte trailer read stays below the capacity,
\* as it is in the program.
BufSize == 3

\* Size of the large chunk of the input vocabulary; larger than BufSize and
\* at least 10, so that its size line is a hexadecimal letter.
BigChunk == 10

\* Chunks before the tail of a body handed directly to a body framer.
MaxChunks == 2

\* Chunks before the tail of a body served to a whole HttpGet call.
MaxGetChunks == 1

\* Length of the custom header list.
MaxCustom == 2

\* ------------------------------------------------------------------- bytes

CR == "\r"
LF == "\n"
CRLF == <<CR, LF>>

Min(a, b) == IF a < b THEN a ELSE b

\* Variant: the text anywhere in the line (strings.Contains).
ContainsText(s, p) ==
    \E i \in 1..(Len(s) - Len(p) + 1) : SubSeq(s, i, i + Len(p) - 1) = p

\* strings.HasPrefix
HasPrefix(s, p) == Len(s) >= Len(p) /\ SubSeq(s, 1, Len(p)) = p

\* bytes.IndexByte, 1-based; 0 when c does not occur in s
IndexByte(s, c) ==
    IF \E i \in 1..Len(s) : s[i] = c
    THEN CHOOSE i \in 1..Len(s) : s[i] = c /\ \A j \in 1..(i - 1) : s[j] # c
    ELSE 0

RECURSIVE Concat(_)
Concat(ss) == IF ss = <<>> THEN <<>> ELSE Head(ss) \o Concat(Tail(ss))

\* "Transfer-Encoding: chunked", the prefix readHeaders looks for
TEChunked ==
    <<"T","r","a","n","s","f","e","r","-","E","n","c","o","d","i","n","g",
      ":"," ","c","h","u","n","k","e","d">>

\* strings.TrimRight(line, "\r\n"): drops every trailing CR and LF
RECURSIVE TrimRightCRLF(_)
TrimRightCRLF(s) ==
    IF s # <<>> /\ s[Len(s)] \in {CR, LF}
    THEN TrimRightCRLF(SubSeq(s, 1, Len(s) - 1))
    ELSE s

\* unicode.IsSpace on ASCII
WhiteSpace == {" ", "\t", LF, CR, "\f"}

RECURSIVE TrimLeftSpace(_)
TrimLeftSpace(s) ==
    IF s # <<>> /\ s[1] \in WhiteSpace THEN TrimLeftSpace(Tail(s)) ELSE s

RECURSIVE TrimRightSpace(_)
TrimRightSpace(s) ==
    IF s # <<>> /\ s[Len(s)] \in WhiteSpace
    THEN TrimRightSpace(SubSeq(s, 1, Len(s) - 1))
    ELSE s

\* Variant: the line is left as it is.
trimSpaceNone(line) == line

\* trimSpace: strings.TrimSpace
trimSpace(line) == TrimRightSpace(TrimLeftSpace(line))

HexDigits ==
    {"0","1","2","3","4","5","6","7","8","9",
     "a","b","c","d","e","f","A","B","C","D","E","F"}

HexVal(c) ==
    CASE c = "0" -> 0 [] c = "1" -> 1 [] c = "2" -> 2 [] c = "3" -> 3
      [] c = "4" -> 4 [] c = "5" -> 5 [] c = "6" -> 6 [] c = "7" -> 7
      [] c = "8" -> 8 [] c = "9" -> 9
      [] c \in {"a", "A"} -> 10 [] c \in {"b", "B"} -> 11
      [] c \in {"c", "C"} -> 12 [] c \in {"d", "D"} -> 13
      [] c \in {"e", "E"} -> 14 [] c \in {"f", "F"} -> 15

RECURSIVE HexMagnitude(_)
HexMagnitude(ds) ==
    IF ds = <<>> THEN 0
    ELSE 16 * HexMagnitude(SubSeq(ds, 1, Len(ds) - 1)) + HexVal(ds[Len(ds)])

RECURSIVE DecMagnitude(_)
DecMagnitude(ds) ==
    IF ds = <<>> THEN 0
    ELSE 10 * DecMagnitude(SubSeq(ds, 1, Len(ds) - 1)) + HexVal(ds[Len(ds)])

\* Variant: strconv.ParseInt(hexString, 10, 64), the size line in base 10.
parseIntDec(hexString) ==
    LET signed == hexString # <<>> /\ hexString[1] \in {"+", "-"}
        digits == IF signed THEN Tail(hexString) ELSE hexString
        neg == signed /\ hexString[1] = "-"
    IN  IF digits = <<>>
           \/ \E i \in 1..Len(digits) :
                 digits[i] \notin {"0","1","2","3","4","5","6","7","8","9"}
        THEN [err |-> "syntax", val |-> 0]
        ELSE [err |-> "nil",
              val |-> IF neg THEN 0 - DecMagnitude(digits)
                      ELSE DecMagnitude(digits)]

\* parseIntHex: strconv.ParseInt(hexString, 16, 64).  An optional leading
\* '+' or '-' is accepted; what follows must be one or more hexadecimal
\* digits.  The size lines of the model are at most four digits long, far
\* below the 64-bit range error.
parseIntHex(hexString) ==
    LET signed == hexString # <<>> /\ hexString[1] \in {"+", "-"}
        digits == IF signed THEN Tail(hexString) ELSE hexString
        neg == signed /\ hexString[1] = "-"
    IN  IF digits = <<>> \/ \E i \in 1..Len(digits) : digits[i] \notin HexDigits
        THEN [err |-> "syntax", val |-> 0]
        ELSE [err |-> "nil",
              val |-> IF neg THEN 0 - HexMagnitude(digits)
                      ELSE HexMagnitude(digits)]

\* fmt.Sprintf(format) with no operands, as HttpGet calls it with
\* header + "\r\n" as the format.  Text is copied up to a '%'; after it the
\* flags "#0+- ", a width and a precision are skipped; then "%%" prints
\* '%', a '%' with nothing after it prints "%!(NOVERB)", and any other verb
\* c prints "%!c(MISSING)" since there is no operand.  ('*' and '[' do not
\* occur in the formats of the model.)
FmtFlags == {"#", "0", "+", "-", " "}
Digits == {"0","1","2","3","4","5","6","7","8","9"}

RECURSIVE SkipWhile(_, _)
SkipWhile(s, set) ==
    IF s # <<>> /\ s[1] \in set THEN SkipWhile(Tail(s), set) ELSE s

SkipPrecision(s) ==
    IF s # <<>> /\ s[1] = "." THEN SkipWhile(Tail(s), Digits) ELSE s

RECURSIVE Sprintf(_)
Sprintf(format) ==
    IF format = <<>> THEN <<>>
    ELSE IF format[1] # "%" THEN <<format[1]>> \o Sprintf(Tail(format))
    ELSE LET rest == SkipPrecision(SkipWhile(SkipWhile(Tail(format), FmtFlags),
                                             Digits))
         IN  IF rest = <<>>
             THEN <<"%","!","(","N","O","V","E","R","B",")">>
             ELSE IF rest[1] = "%" THEN <<"%">> \o Sprintf(Tail(rest))
             ELSE <<"%","!", rest[1], "(","M","I","S","S","I","N","G",")">>
                  \o Sprintf(Tail(rest))

\* ------------------------------------------------------------------ inputs

HexChars == <<"0","1","2","3","4","5","6","7","8","9","a","b","c","d","e","f">>
HexCharsUpper ==
    <<"0","1","2","3","4","5","6","7","8","9","A","B","C","D","E","F">>

\* The hexadecimal text of n >= 0, as a peer writes a chunk size.
RECURSIVE ToHexWith(_, _)
ToHexWith(n, chars) ==
    IF n < 16 THEN <<chars[n + 1]>>
    ELSE ToHexWith(n \div 16, chars) \o <<chars[(n % 16) + 1]>>

ToHex(n) == ToHexWith(n, HexChars)
ToHexUpper(n) == ToHexWith(n, HexCharsUpper)

\* The chunks a peer may send: a size line, the payload, the two bytes that
\* follow it.  canonical: the size line is hexadecimal digits and CRLF, the
\* size is the payload's length and the two bytes are CRLF.
ChunkVocab ==
    { [line |-> ToHex(1) \o CRLF, data |-> <<"x">>, trailer |-> CRLF,
       canonical |-> TRUE],
      [line |-> <<"0">> \o ToHex(2) \o CRLF, data |-> <<LF, "0">>,
       trailer |-> CRLF, canonical |-> TRUE],
      [line |-> ToHexUpper(BigChunk) \o CRLF,
       data |-> [i \in 1..BigChunk |-> IF i = BigChunk THEN "z" ELSE "y"],
       trailer |-> CRLF, canonical |-> TRUE],
      [line |-> <<" ">> \o ToHex(1) \o <<" ", LF>>, data |-> <<CR>>,
       trailer |-> <<"0", LF>>, canonical |-> FALSE] }

ChunkBytes(c) == c.line \o c.data \o c.trailer

RECURSIVE FlattenChunks(_)
FlattenChunks(cs) ==
    IF cs = <<>> THEN <<>> ELSE ChunkBytes(Head(cs)) \o FlattenChunks(Tail(cs))

RECURSIVE Payloads(_)
Payloads(cs) ==
    IF cs = <<>> THEN <<>> ELSE Head(cs).data \o Payloads(Tail(cs))

\* What a peer may send after the chunks, by kind.
TailVocab ==
    { [kind |-> "zero", bytes |-> <<"0">> \o CRLF],
      [kind |-> "zeroCRLF", bytes |-> <<"0">> \o CRLF \o CRLF],
      [kind |-> "zeroTrailers",
       bytes |-> <<"0", "0">> \o CRLF \o <<"T", ":", "v">> \o CRLF \o CRLF],
      [kind |-> "empty", bytes |-> CRLF \o <<"q">>],
      [kind |-> "blank", bytes |-> <<" ", "\t">> \o CRLF \o <<"q">>],
      [kind |-> "end", bytes |-> <<>>],
      [kind |-> "partialLine", bytes |-> <<"1">>],
      [kind |-> "noData", bytes |-> ToHex(2) \o CRLF],
      [kind |-> "shortData", bytes |-> ToHex(2) \o CRLF \o <<"s">>],
      [kind |-> "shortBigData", bytes |-> ToHex(BigChunk) \o CRLF \o <<"s">>],
      [kind |-> "noTrailer", bytes |-> ToHex(1) \o CRLF \o <<"t">>],
      [kind |-> "halfTrailer", bytes |-> ToHex(1) \o CRLF \o <<"t", CR>>],
      [kind |-> "badHex", bytes |-> <<"g">> \o CRLF \o <<"0">> \o CRLF],
      [kind |-> "extension",
       bytes |-> <<"1", ";", "e">> \o CRLF \o <<"u">> \o CRLF
                 \o <<"0">> \o CRLF],
      [kind |-> "plus",
       bytes |-> <<"+", "1">> \o CRLF \o <<"p">> \o CRLF \o <<"0">> \o CRLF],
      [kind |-> "minus",
       bytes |-> <<"-", "1">> \o CRLF \o <<"m">> \o CRLF \o <<"0">> \o CRLF] }

ZeroTails == {"zero", "zeroCRLF", "zeroTrailers"}

SeqsUpTo(S, n) == UNION { [1..k -> S] : k \in 0..n }

\* Header blocks a peer may send.  terminated: the block ends with its
\* first line that is exactly CRLF; the others end, or go on into the body,
\* without one.  chunked: a line of the block starts with TEChunked.
StatusLine == <<"O", "K">>

HdrVocab ==
    { [bytes |-> CRLF, terminated |-> TRUE, chunked |-> FALSE],
      [bytes |-> StatusLine \o CRLF \o CRLF, terminated |-> TRUE,
       chunked |-> FALSE],
      [bytes |-> StatusLine \o CRLF \o TEChunked \o CRLF \o CRLF,
       terminated |-> TRUE, chunked |-> TRUE],
      [bytes |-> StatusLine \o <<LF, LF>>, terminated |-> FALSE,
       chunked |-> FALSE],
      [bytes |-> StatusLine \o CRLF, terminated |-> FALSE, chunked |-> FALSE],
      [bytes |-> TEChunked \o CRLF \o StatusLine, terminated |-> FALSE,
       chunked |-> TRUE],
      [bytes |-> StatusLine, terminated |-> FALSE, chunked |-> FALSE],
      [bytes |-> <<>>, terminated |-> FALSE, chunked |-> FALSE] }

NoHdr == [bytes |-> <<>>, terminated |-> FALSE, chunked |-> FALSE]

\* TEChunked with its first letter in lower case.
TELower == <<"t">> \o Tail(TEChunked)

\* Header blocks with lines close to "Transfer-Encoding: chunked": in lower
\* case, cut short, after a space, with more text behind, ended by LF
\* alone, and ahead of another line.
HdrVariants ==
    { [bytes |-> TELower \o CRLF \o CRLF, terminated |-> TRUE,
       chunked |-> FALSE],
      [bytes |-> SubSeq(TEChunked, 1, Len(TEChunked) - 1) \o CRLF \o CRLF,
       terminated |-> TRUE, chunked |-> FALSE],
      [bytes |-> <<" ">> \o TEChunked \o CRLF \o CRLF, terminated |-> TRUE,
       chunked |-> FALSE],
      [bytes |-> TEChunked \o <<",", "g">> \o CRLF \o CRLF,
       terminated |-> TRUE, chunked |-> TRUE],
      [bytes |-> TEChunked \o <<LF>> \o CRLF, terminated |-> TRUE,
       chunked |-> TRUE],
      [bytes |-> TEChunked \o CRLF \o StatusLine \o CRLF \o CRLF,
       terminated |-> TRUE, chunked |-> TRUE] }

\* A body that starts with the text of the header line.
TELineTail == [kind |-> "teLine", bytes |-> TEChunked \o CRLF]

\* Custom header strings (flags.CustomHeaders).
CustomVocab ==
    { <<"A", ":", " ", "b">>,
      <<"P", ":", " ", "5", "%">>,
      <<"Q", ":", " ", "%", "d", "%", "%">> }

PathVocab == { <<"/">>, <<"/", "a", "%", "s">> }
HostVocab == { <<"h">> }

NoFlags == [ShowHeaders |-> FALSE, ShowOnlyHeaders |-> FALSE,
            CustomHeaders |-> <<>>]

FlagVocab ==
    { [ShowHeaders |-> i, ShowOnlyHeaders |-> o, CustomHeaders |-> <<>>] :
        i \in BOOLEAN, o \in BOOLEAN }

\* An input: the call (entry and its arguments) and what the peer does.
\* transport "tcp" is the net.Conn HttpGet dials, whose Read returns bytes
\* or an error, never both; "generic" is any io.Reader, whose Read may
\* return the last bytes together with the error.  sink "ok" is an output
\* whose Write takes everything it is given; "failing" is one whose Write
\* may also take only part of it and return an error.  reader "bufio" is a
\* *bufio.Reader handed to the framer, as HttpGet does; "plain" is any
\* other io.Reader handed to readChunkedResponse.
Input(entry, transport, flags, host, path, hdr, chunks, tail, endErr) ==
    [entry |-> entry, transport |-> transport, flags |-> flags,
     host |-> host, path |-> path, hdr |-> hdr, chunks |-> chunks,
     tail |-> tail, endErr |-> endErr, sink |-> "ok", reader |-> "bufio"]

EndErrs == {"EOF", "ERR"}

\* Bodies handed directly to readChunkedResponse.
ChunkedInputs ==
    { Input("readChunkedResponse", "generic", NoFlags, <<>>, <<>>, NoHdr,
            cs, t, e) :
        cs \in SeqsUpTo(ChunkVocab, MaxChunks), t \in TailVocab, e \in EndErrs }

\* Bodies handed directly to readNonChunkedResponse.
IdentityInputs ==
    { Input("readNonChunkedResponse", "generic", NoFlags, <<>>, <<>>, NoHdr,
            cs, t, e) :
        cs \in SeqsUpTo(ChunkVocab, MaxGetChunks), t \in TailVocab,
        e \in EndErrs }

\* HttpGet calls: every response with the plain request (a header block
\* without terminator is followed by a tail alone) ...
GetResponseInputs ==
    { Input("HttpGet", "tcp", f, <<"h">>, <<"/">>, h, cs, t, e) :
        f \in FlagVocab, h \in { x \in HdrVocab : x.terminated },
        cs \in SeqsUpTo(ChunkVocab, MaxGetChunks), t \in TailVocab,
        e \in EndErrs }
    \cup
    { Input("HttpGet", "tcp", f, <<"h">>, <<"/">>, h, <<>>, t, e) :
        f \in FlagVocab, h \in { x \in HdrVocab : ~x.terminated },
        t \in TailVocab, e \in EndErrs }

\* ... and every request with one identity and one chunked response.
GetRequestInputs ==
    { Input("HttpGet", "tcp", [NoFlags EXCEPT !.CustomHeaders = hs], ho, pa,
            h, <<>>, [kind |-> "zero", bytes |-> <<"0">> \o CRLF], "EOF") :
        hs \in SeqsUpTo(CustomVocab, MaxCustom), ho \in HostVocab,
        pa \in PathVocab,
        h \in { x \in HdrVocab : x.terminated /\ Len(x.bytes) > 2 } }

\* HttpGet calls whose header block is one of HdrVariants, or is followed
\* by a body that looks like the header line.
GetHeaderInputs ==
    { Input("HttpGet", "tcp", NoFlags, <<"h">>, <<"/">>, h, <<>>, t, "EOF") :
        h \in HdrVariants,
        t \in { x \in TailVocab : x.kind = "zero" } \cup {TELineTail} }
    \cup
    { Input("HttpGet", "tcp", NoFlags, <<"h">>, <<"/">>, h, <<>>, TELineTail,
            "EOF") :
        h \in { x \in HdrVocab : x.terminated } }

\* Calls whose output may fail: HttpGet with and without the headers
\* shown, with a chunked body and with a short identity body, and the
\* chunked framer alone.
FailingSinkInputs ==
    { [Input("HttpGet", "tcp", [NoFlags EXCEPT !.ShowHeaders = sh], <<"h">>,
             <<"/">>, h, cs, t, "EOF") EXCEPT !.sink = "failing"] :
        sh \in BOOLEAN,
        h \in { x \in HdrVocab : x.terminated /\ x.chunked },
        cs \in SeqsUpTo({ c \in ChunkVocab : Len(c.data) <= 2 },
                        MaxGetChunks),
        t \in { x \in TailVocab : x.kind = "zero" } }
    \cup
    { [Input("HttpGet", "tcp", [NoFlags EXCEPT !.ShowHeaders = sh], <<"h">>,
             <<"/">>, h, <<>>, t, "EOF") EXCEPT !.sink = "failing"] :
        sh \in BOOLEAN,
        h \in { x \in HdrVocab :
                  x.terminated /\ ~x.chunked /\ Len(x.bytes) > 2 },
        t \in { x \in TailVocab : x.kind = "zero" } }
    \cup
    { [Input("readChunkedResponse", "generic", NoFlags, <<>>, <<>>, NoHdr,
             cs, t, "EOF") EXCEPT !.sink = "failing"] :
        cs \in SeqsUpTo({ c \in ChunkVocab : Len(c.data) <= 2 },
                        MaxGetChunks),
        t \in { x \in TailVocab : x.kind = "zero" } }

\* Bodies handed to readChunkedResponse through a reader that is no
\* *bufio.Reader.
PlainReaderInputs ==
    { [Input("readChunkedResponse", "generic", NoFlags, <<>>, <<>>, NoHdr,
             cs, t, e) EXCEPT !.reader = "plain"] :
        cs \in SeqsUpTo(ChunkVocab, MaxGetChunks), t \in TailVocab,
        e \in EndErrs }

Inputs ==
    ChunkedInputs \cup IdentityInputs \cup GetResponseInputs
    \cup GetRequestInputs \cup GetHeaderInputs \cup FailingSinkInputs
    \cup PlainReaderInputs

\* ------------------------------------------------------------------- state

VARIABLES
    call,        \* the input: entry point, flags, host, path, peer behaviour
    resp,        \* every byte the peer sends before the stream ends
    pc,          \* where the program is
    connOpen,    \* HttpGet's connection is dialled and not yet closed
    request,     \* the bytes HttpGet handed to conn.Write
    writeFailed, \* conn.Write returned an error
    rd,          \* stream bytes consumed through the bufio.Reader (b.r)
    wr,          \* stream bytes read from the transport so far (b.w)
    berr,        \* the bufio.Reader's pending error (b.err)
    acc,         \* ReadString: the fragments collected for the current line
    hdrBuilder,  \* readHeaders: its strings.Builder
    chunkedSeen, \* readHeaders: its local isChunked
    headers,     \* HttpGet: the header text readHeaders returned
    isChunked,   \* HttpGet: the flag readHeaders returned
    size,        \* readChunkedResponse: the parsed chunk size
    chunkData,   \* readChunkedResponse: the bytes of chunkData read so far
    need,        \* discardBytes: bytes the LimitedReader still allows
    out,         \* the bytes written to the output sink
    ferr,        \* what the body framer returned ("none": not yet)
    ret,         \* what HttpGet returned ("none": not yet)
    log          \* lines printed to os.Stderr

vars ==
    <<call, resp, pc, connOpen, request, writeFailed, rd, wr, berr, acc,
      hdrBuilder, chunkedSeen, headers, isChunked, size, chunkData, need,
      out, ferr, ret, log>>

EntryPc(entry) ==
    CASE entry = "HttpGet" -> "dial"
      [] entry = "readChunkedResponse" -> "readLine"
      [] entry = "readNonChunkedResponse" -> "readNonChunked"

Init ==
    /\ call \in Inputs
    /\ resp = call.hdr.bytes \o FlattenChunks(call.chunks) \o call.tail.bytes
    /\ pc = EntryPc(call.entry)
    /\ connOpen = FALSE
    /\ request = <<>>
    /\ writeFailed = FALSE
    /\ rd = 0
    /\ wr = 0
    /\ berr = "nil"
    /\ acc = <<>>
    /\ hdrBuilder = <<>>
    /\ chunkedSeen = FALSE
    /\ headers = <<>>
    /\ isChunked = FALSE
    /\ size = 0
    /\ chunkData = <<>>
    /\ need = 0
    /\ out = <<>>
    /\ ferr = "none"
    /\ ret = "none"
    /\ log = <<>>

\* --------------------------------------------------- transport and bufio

\* One Read of the transport into a slice of c > 0 bytes: what it may
\* return.  While bytes remain it returns between 1 and c of them; a generic
\* io.Reader may hand over the last bytes together with the error that ends
\* the stream.  When none remain it returns the error.
TransportRead(c) ==
    LET avail == Len(resp) - wr
    IN  IF avail = 0 THEN { [n |-> 0, err |-> call.endErr] }
        ELSE { [n |-> k, err |-> "nil"] : k \in 1..Min(c, avail) }
             \cup (IF call.transport = "generic" /\ avail <= c
                   THEN { [n |-> avail, err |-> call.endErr] }
                   ELSE {})

\* One pass of bufio.Reader.ReadSlice's loop inside ReadString('\n'):
\*  - the delimiter is in the buffer: the line is returned;
\*  - else an error is pending: what is buffered is returned with it;
\*  - else the buffer is full: it is collected as a fragment and emptied;
\*  - else fill() reads once from the transport into the free space.
\* kind "ret": ReadString returns (line, err); "more": the loop goes on.
ReadStringStep ==
    LET buf == SubSeq(resp, rd + 1, wr)
        i == IndexByte(buf, LF)
    IN  IF i > 0
        THEN { [kind |-> "ret", line |-> acc \o SubSeq(buf, 1, i),
                err |-> "nil", rd |-> rd + i, wr |-> wr, berr |-> berr,
                acc |-> <<>>] }
        ELSE IF berr # "nil"
        THEN { [kind |-> "ret", line |-> acc \o buf, err |-> berr,
                rd |-> wr, wr |-> wr, berr |-> "nil", acc |-> <<>>] }
        ELSE IF wr - rd >= BufSize
        THEN { [kind |-> "more", line |-> <<>>, err |-> "nil", rd |-> wr,
                wr |-> wr, berr |-> berr, acc |-> acc \o buf] }
        ELSE { [kind |-> "more", line |-> <<>>, err |-> "nil", rd |-> rd,
                wr |-> wr + o.n, berr |-> o.err, acc |-> acc] :
                  o \in TransportRead(BufSize - (wr - rd)) }

\* bufio.Reader.Read(p) with len(p) = c > 0: what it may return, and the
\* reader's state after it.
\*  - buffer empty, error pending: (0, the error);
\*  - buffer empty, c >= capacity: one transport Read straight into p,
\*    returned as it is, bytes and error together;
\*  - buffer empty, c < capacity: one transport Read into the buffer; no
\*    bytes: (0, error); else the bytes are copied out and an error stays
\*    pending;
\*  - buffer not empty: copies out of it what fits, no transport Read.
BufioRead(c) ==
    IF rd = wr
    THEN IF berr # "nil"
         THEN { [n |-> 0, err |-> berr, data |-> <<>>, rd |-> rd, wr |-> wr,
                 berr |-> "nil"] }
         ELSE IF c >= BufSize
         THEN { [n |-> o.n, err |-> o.err,
                 data |-> SubSeq(resp, wr + 1, wr + o.n),
                 rd |-> wr + o.n, wr |-> wr + o.n, berr |-> "nil"] :
                   o \in TransportRead(c) }
         ELSE { IF o.n = 0
                THEN [n |-> 0, err |-> o.err, data |-> <<>>, rd |-> rd,
                      wr |-> wr, berr |-> "nil"]
                ELSE [n |-> Min(c, o.n), err |-> "nil",
                      data |-> SubSeq(resp, wr + 1, wr + Min(c, o.n)),
                      rd |-> rd + Min(c, o.n), wr |-> wr + o.n,
                      berr |-> o.err] :
                   o \in TransportRead(BufSize) }
    ELSE { [n |-> Min(c, wr - rd), err |-> "nil",
            data |-> SubSeq(resp, rd + 1, rd + Min(c, wr - rd)),
            rd |-> rd + Min(c, wr - rd), wr |-> wr, berr |-> berr] }

\* readLine: where the reader given to readChunkedResponse stands, and its
\* pending error, when readLine's ReadString has come to o.  A *bufio.Reader
\* is read itself.  Any other reader is wrapped in a new bufio.Reader for
\* this call alone: when the call returns, what the wrapper had read ahead
\* and its pending error go with it, and the reader given stands where the
\* wrapper's last Read left it.
AfterReadLine(o) ==
    IF call.reader = "plain" /\ o.kind = "ret"
    THEN [rd |-> o.wr, berr |-> "nil"]
    ELSE [rd |-> o.rd, berr |-> o.berr]

\* reader.Read(p) of the reader given to a framer, len(p) = c > 0: through
\* the bufio.Reader, or one Read of the plain reader itself.
ReaderRead(c) ==
    IF call.reader = "plain"
    THEN { [n |-> o.n, err |-> o.err,
            data |-> SubSeq(resp, wr + 1, wr + o.n),
            rd |-> wr + o.n, wr |-> wr + o.n, berr |-> "nil"] :
              o \in TransportRead(c) }
    ELSE BufioRead(c)

\* output.Write(data): what the sink may hold after it and what Write
\* returns.  A failing sink may take any part of data short of all of it
\* and return an error.
SinkWrite(data) ==
    { [out |-> out \o data, err |-> "nil"] }
    \cup (IF call.sink = "failing"
          THEN { [out |-> out \o SubSeq(data, 1, k), err |-> "writeErr"] :
                   k \in 0..(Len(data) - 1) }
          ELSE {})

\* ----------------------------------------------------------------- HttpGet

GetLit == <<"G", "E", "T", " ">>
HttpLit == <<" ", "H", "T", "T", "P", "/", "1", ".", "1">> \o CRLF
HostLit == <<"H", "o", "s", "t", ":", " ">>
ConnCloseLit ==
    <<"C","o","n","n","e","c","t","i","o","n",":"," ","c","l","o","s","e">>
    \o CRLF \o CRLF

\* The loop over flags.CustomHeaders: each header, with "\r\n" appended, is
\* the format of a Sprintf without operands.
RECURSIVE CustomHeaderText(_)
CustomHeaderText(hs) ==
    IF hs = <<>> THEN <<>>
    ELSE Sprintf(Head(hs) \o CRLF) \o CustomHeaderText(Tail(hs))

\* The request HttpGet assembles: path and host are operands of a "%s".
BuildRequest(path, host, custom) ==
    LET requestLine == GetLit \o path \o HttpLit
        requestHeaders ==
            HostLit \o host \o CRLF \o CustomHeaderText(custom) \o ConnCloseLit
    IN  requestLine \o requestHeaders

\* Variant: any line empty once CR and LF are trimmed ends the block.
IsTerminatorLoose(line) == TrimRightCRLF(line) = <<>>

\* readHeaders: the line that ends the header block.
IsTerminator(line) == line = CRLF

\* Variant: the text and flag collected so far are returned with the error.
ErrorResultPartial(builder, seen) == [headers |-> builder, isChunked |-> seen]

\* readHeaders: what it returns beside the error when ReadString fails.
ErrorResult(builder, seen) == [headers |-> <<>>, isChunked |-> FALSE]

\* Variant: only ShowOnlyHeaders displays the headers.
HeaderDisplayOnlyFlag(flags) == flags.ShowOnlyHeaders

\* HttpGet: the header text is written to the sink.
HeaderDisplay(flags) == flags.ShowHeaders \/ flags.ShowOnlyHeaders

\* Variant: ShowHeaders overrides ShowOnlyHeaders.
HeadersOnlyUnlessShow(flags) == flags.ShowOnlyHeaders /\ ~flags.ShowHeaders

\* HttpGet: return after the headers, before any body framer.
HeadersOnly(flags) == flags.ShowOnlyHeaders

\* Variant: a single Read, whatever it returns, completes the chunk.
ChunkCompleteAny(data, sz) == Len(data) > 0

\* io.ReadFull: the loop ends without error once len(buf) bytes are read.
ChunkComplete(data, sz) == Len(data) >= sz

\* Variant: a lone LF is expected after the chunk data.
TrailerLenLF == Len(<<LF>>)

\* readChunkedResponse: the bytes discarded after each chunk's data, the
\* length of a CRLF.
TrailerLen == Len(CRLF)

\* Variant: the test for the last chunk is missing.
LastChunkNever(sz) == FALSE

\* readChunkedResponse: the parsed size that ends the response.
LastChunk(sz) == sz = 0

\* Variant: the framer is given a new bufio.Reader on the connection, which
\* starts where the connection is, past what the first one had buffered.
FramerCursorRewrapped(r, w) == w

\* HttpGet hands readHeaders' bufio.Reader itself to the body framer: the
\* framer goes on from the cursor r, whatever the transport position w.
FramerCursor(r, w) == r

\* Variant: conn.Close() is called before the final return only.
HttpGetReturnNoDefer(e) ==
    /\ ret' = e
    /\ pc' = "done"
    /\ connOpen' = (connOpen /\ e # "nil")

\* HttpGet returns e; the deferred conn.Close() runs.
HttpGetReturn(e) ==
    /\ ret' = e
    /\ pc' = "done"
    /\ connOpen' = FALSE

\* The body framer returns e.  HttpGet drops the value and returns nil.
FramerReturn(e) ==
    /\ ferr' = e
    /\ IF call.entry = "HttpGet"
       THEN HttpGetReturn("nil")
       ELSE pc' = "done" /\ UNCHANGED <<ret, connOpen>>

\* net.Dial: the connection, or an error that HttpGet returns.
Dial ==
    /\ pc = "dial"
    /\ \/ /\ connOpen' = TRUE
          /\ pc' = "write"
          /\ UNCHANGED ret
       \/ /\ ret' = "dialErr"
          /\ pc' = "done"
          /\ UNCHANGED connOpen
    /\ UNCHANGED <<call, resp, request, writeFailed, rd, wr, berr, acc,
                   hdrBuilder, chunkedSeen, headers, isChunked, size,
                   chunkData, need, out, ferr, log>>

\* The request is assembled and handed to conn.Write in one call; the
\* result of the call is not looked at, and bufio.NewReader(conn) follows.
WriteRequest ==
    /\ pc = "write"
    /\ request' = BuildRequest(call.path, call.host, call.flags.CustomHeaders)
    /\ \/ writeFailed' = FALSE
       \/ writeFailed' = TRUE
    /\ pc' = "readHeaders"
    /\ UNCHANGED <<call, resp, connOpen, rd, wr, berr, acc, hdrBuilder,
                   chunkedSeen, headers, isChunked, size, chunkData, need,
                   out, ferr, ret, log>>

\* readHeaders, one pass of its ReadString: a line is appended to the
\* builder; the line "\r\n" ends the block and hands the text and the flag
\* to HttpGet; an error makes readHeaders return ("", false, err), which
\* HttpGet returns.
readHeaders ==
    /\ pc = "readHeaders"
    /\ \E o \in ReadStringStep :
        /\ rd' = o.rd
        /\ wr' = o.wr
        /\ berr' = o.berr
        /\ acc' = o.acc
        /\ \/ /\ o.kind = "more"
              /\ UNCHANGED <<pc, hdrBuilder, chunkedSeen, headers, isChunked,
                             ret, connOpen>>
           \/ /\ o.kind = "ret"
              /\ o.err # "nil"
              /\ headers' = ErrorResult(hdrBuilder, chunkedSeen).headers
              /\ isChunked' = ErrorResult(hdrBuilder, chunkedSeen).isChunked
              /\ HttpGetReturn(o.err)
              /\ UNCHANGED <<hdrBuilder, chunkedSeen>>
           \/ /\ o.kind = "ret"
              /\ o.err = "nil"
              /\ IsTerminator(o.line)
              /\ hdrBuilder' = hdrBuilder \o o.line
              /\ headers' = hdrBuilder \o o.line
              /\ isChunked' = chunkedSeen
              /\ pc' = "dispatch"
              /\ UNCHANGED <<chunkedSeen, ret, connOpen>>
           \/ /\ o.kind = "ret"
              /\ o.err = "nil"
              /\ ~IsTerminator(o.line)
              /\ hdrBuilder' = hdrBuilder \o o.line
              /\ chunkedSeen' = (chunkedSeen \/ HasPrefix(o.line, TEChunked))
              /\ UNCHANGED <<pc, headers, isChunked, ret, connOpen>>
    /\ UNCHANGED <<call, resp, request, writeFailed, size, chunkData, need,
                   out, ferr, log>>

\* After readHeaders: the header text goes to the sink when either display
\* flag is set, and what that Write returns is not looked at; with
\* ShowOnlyHeaders HttpGet returns; otherwise the body framer is chosen by
\* isChunked.
Dispatch ==
    /\ pc = "dispatch"
    /\ IF HeaderDisplay(call.flags)
       THEN \E w \in SinkWrite(headers) : out' = w.out
       ELSE UNCHANGED out
    /\ \/ /\ HeaderDisplay(call.flags)
          /\ HeadersOnly(call.flags)
          /\ HttpGetReturn("nil")
          /\ UNCHANGED rd
       \/ /\ ~(HeaderDisplay(call.flags) /\ HeadersOnly(call.flags))
          /\ isChunked
          /\ rd' = FramerCursor(rd, wr)
          /\ pc' = "readLine"
          /\ UNCHANGED <<ret, connOpen>>
       \/ /\ ~(HeaderDisplay(call.flags) /\ HeadersOnly(call.flags))
          /\ ~isChunked
          /\ rd' = FramerCursor(rd, wr)
          /\ pc' = "readNonChunked"
          /\ UNCHANGED <<ret, connOpen>>
    /\ UNCHANGED <<call, resp, request, writeFailed, wr, berr, acc,
                   hdrBuilder, chunkedSeen, headers, isChunked, size,
                   chunkData, need, ferr, log>>

\* ------------------------------------------------- readNonChunkedResponse

\* Variant: only io.EOF ends the loop.
ReadEndsLoopOnEOF(err) == err = "EOF"

\* readNonChunkedResponse: the Read results that end its loop.
ReadEndsLoop(err) == err # "nil"

\* What a Read result adds to the log: any error but io.EOF is printed.
ReadLog(err) == IF err \notin {"nil", "EOF"} THEN <<"read error">> ELSE <<>>

\* One pass of the loop: reader.Read(buf) with the 4096-byte buf (BufSize
\* here).  An error ends the loop, is printed unless it is io.EOF, and the
\* bytes that came with it are not written; otherwise buf[:n] is written,
\* and an error of that Write is printed and the loop goes on.  The
\* function returns nothing.
readNonChunkedResponse ==
    /\ pc = "readNonChunked"
    /\ \E o \in BufioRead(BufSize) :
        /\ rd' = o.rd
        /\ wr' = o.wr
        /\ berr' = o.berr
        /\ \/ /\ ReadEndsLoop(o.err)
              /\ log' = log \o ReadLog(o.err)
              /\ FramerReturn("nil")
              /\ UNCHANGED out
           \/ /\ ~ReadEndsLoop(o.err)
              /\ \E w \in SinkWrite(o.data) :
                    /\ out' = w.out
                    /\ log' = log \o ReadLog(o.err)
                              \o (IF w.err # "nil" THEN <<"write error">>
                                  ELSE <<>>)
              /\ UNCHANGED <<pc, ferr, ret, connOpen>>
    /\ UNCHANGED <<call, resp, request, writeFailed, acc, hdrBuilder,
                   chunkedSeen, headers, isChunked, size, chunkData, need>>

\* ---------------------------------------------------- readChunkedResponse

\* readLine and what readChunkedResponse does with the line, one pass of
\* ReadString: the line is trimmed of trailing CR and LF (readLine) and of
\* white space (trimSpace); a read error is returned; an empty line and a
\* zero size end the loop; a parse error is returned; make([]byte, size)
\* panics on a negative size; otherwise the chunk data is read next.
readLine ==
    /\ pc = "readLine"
    /\ \E o \in ReadStringStep :
        LET sizeLine == trimSpace(TrimRightCRLF(o.line))
            parsed == parseIntHex(sizeLine)
        IN
        /\ rd' = AfterReadLine(o).rd
        /\ wr' = o.wr
        /\ berr' = AfterReadLine(o).berr
        /\ acc' = o.acc
        /\ \/ /\ o.kind = "more"
              /\ UNCHANGED <<pc, size, chunkData, ferr, ret, connOpen>>
           \/ /\ o.kind = "ret"
              /\ o.err # "nil"
              /\ FramerReturn(o.err)
              /\ UNCHANGED <<size, chunkData>>
           \/ /\ o.kind = "ret"
              /\ o.err = "nil"
              /\ sizeLine = <<>>
              /\ FramerReturn("nil")
              /\ UNCHANGED <<size, chunkData>>
           \/ /\ o.kind = "ret"
              /\ o.err = "nil"
              /\ sizeLine # <<>>
              /\ parsed.err # "nil"
              /\ FramerReturn(parsed.err)
              /\ UNCHANGED <<size, chunkData>>
           \/ /\ o.kind = "ret"
              /\ o.err = "nil"
              /\ sizeLine # <<>>
              /\ parsed.err = "nil"
              /\ LastChunk(parsed.val)
              /\ size' = parsed.val
              /\ FramerReturn("nil")
              /\ UNCHANGED chunkData
           \/ /\ o.kind = "ret"
              /\ o.err = "nil"
              /\ sizeLine # <<>>
              /\ parsed.err = "nil"
              /\ ~LastChunk(parsed.val)
              /\ parsed.val < 0
              /\ size' = parsed.val
              /\ ferr' = "panic"
              /\ pc' = "panic"
              /\ connOpen' = FALSE
              /\ UNCHANGED <<chunkData, ret>>
           \/ /\ o.kind = "ret"
              /\ o.err = "nil"
              /\ sizeLine # <<>>
              /\ parsed.err = "nil"
              /\ ~LastChunk(parsed.val)
              /\ parsed.val >= 0
              /\ size' = parsed.val
              /\ chunkData' = <<>>
              /\ pc' = "readBytes"
              /\ UNCHANGED <<ferr, ret, connOpen>>
    /\ UNCHANGED <<call, resp, request, writeFailed, hdrBuilder, chunkedSeen,
                   headers, isChunked, need, out, log>>

\* readBytes: io.ReadFull(reader, chunkData), one Read of its loop into the
\* rest of chunkData.  With the chunk complete it is written to the sink
\* (write), an error of that Write is returned, and the trailer comes
\* next; a Read without error goes on; an
\* error before the chunk is complete is returned, io.EOF after some bytes
\* as io.ErrUnexpectedEOF.
readBytes ==
    /\ pc = "readBytes"
    /\ \E o \in ReaderRead(size - Len(chunkData)) :
        LET data == chunkData \o o.data
        IN
        /\ rd' = o.rd
        /\ wr' = o.wr
        /\ berr' = o.berr
        /\ chunkData' = data
        /\ \/ /\ ChunkComplete(data, size)
              /\ \E w \in SinkWrite(data) :
                    /\ out' = w.out
                    /\ \/ /\ w.err = "nil"
                          /\ need' = TrailerLen
                          /\ pc' = "discardBytes"
                          /\ UNCHANGED <<ferr, ret, connOpen>>
                       \/ /\ w.err # "nil"
                          /\ FramerReturn(w.err)
                          /\ UNCHANGED need
           \/ /\ ~ChunkComplete(data, size)
              /\ o.err = "nil"
              /\ UNCHANGED <<pc, out, need, ferr, ret, connOpen>>
           \/ /\ ~ChunkComplete(data, size)
              /\ o.err # "nil"
              /\ FramerReturn(IF Len(data) > 0 /\ o.err = "EOF"
                              THEN "ErrUnexpectedEOF" ELSE o.err)
              /\ UNCHANGED <<out, need>>
    /\ UNCHANGED <<call, resp, request, writeFailed, acc, hdrBuilder,
                   chunkedSeen, headers, isChunked, size, log>>

\* discardBytes: io.CopyN(io.Discard, reader, 2), one Read through the
\* LimitedReader, which asks for no more than it still allows.  With both
\* bytes read CopyN returns nil and the next size line is read; a Read
\* without error goes on; an error before that is returned.
discardBytes ==
    /\ pc = "discardBytes"
    /\ \E o \in ReaderRead(need) :
        /\ rd' = o.rd
        /\ wr' = o.wr
        /\ berr' = o.berr
        /\ need' = need - o.n
        /\ \/ /\ need - o.n = 0
              /\ pc' = "readLine"
              /\ UNCHANGED <<ferr, ret, connOpen>>
           \/ /\ need - o.n > 0
              /\ o.err = "nil"
              /\ UNCHANGED <<pc, ferr, ret, connOpen>>
           \/ /\ need - o.n > 0
              /\ o.err # "nil"
              /\ FramerReturn(o.err)
    /\ UNCHANGED <<call, resp, request, writeFailed, acc, hdrBuilder,
                   chunkedSeen, headers, isChunked, size, chunkData, out,
                   log>>

\* ----------------------------------------------------------- specification

Next ==
    \/ Dial
    \/ WriteRequest
    \/ readHeaders
    \/ Dispatch
    \/ readNonChunkedResponse
    \/ readLine
    \/ readBytes
    \/ discardBytes

Spec == Init /\ [][Next]_vars

\* ------------------------------------------------- reference definitions

IsPrefix(a, b) == Len(a) <= Len(b) /\ SubSeq(b, 1, Len(a)) = a

\* Position e of stream s ends a line that is exactly CRLF: the CR starts
\* the stream or follows a LF.
IsTerminatorAt(s, e) ==
    /\ e >= 2
    /\ s[e - 1] = CR
    /\ s[e] = LF
    /\ (e = 2 \/ s[e - 2] = LF)

\* Where the header block of stream s ends; 0 when no line is exactly CRLF.
HeaderEnd(s) ==
    IF \E e \in 1..Len(s) : IsTerminatorAt(s, e)
    THEN CHOOSE e \in 1..Len(s) :
            IsTerminatorAt(s, e) /\ \A f \in 1..(e - 1) : ~IsTerminatorAt(s, f)
    ELSE 0

HeaderBlock == SubSeq(resp, 1, HeaderEnd(resp))

FramerPcs == {"readLine", "readBytes", "discardBytes", "readNonChunked"}

\* The chunked framer is running or has run.
InChunked ==
    \/ pc \in {"readLine", "readBytes", "discardBytes"}
    \/ /\ ferr # "none"
       /\ \/ call.entry = "readChunkedResponse"
          \/ call.entry = "HttpGet" /\ isChunked

\* The body the framer is given is exactly the input's chunks and tail.
Aligned ==
    \/ call.entry \in {"readChunkedResponse", "readNonChunkedResponse"}
    \/ call.entry = "HttpGet" /\ call.hdr.terminated

\* The output takes every Write in full.
SinkOk == call.sink = "ok"

\* The framer reads through a *bufio.Reader, as it does under HttpGet.
Buffered == call.reader = "bufio"

BodyStart == IF call.entry = "HttpGet" THEN Len(call.hdr.bytes) ELSE 0

\* What HttpGet wrote to the sink before the body framer started.
Shown ==
    IF call.entry = "HttpGet" /\ call.flags.ShowHeaders
    THEN call.hdr.bytes ELSE <<>>

Canonical == \A i \in 1..Len(call.chunks) : call.chunks[i].canonical

FirstChunks(k) == SubSeq(call.chunks, 1, k)

\* The number of leading chunks that lie wholly before stream position p.
ChunksBefore(p) ==
    CHOOSE k \in 0..Len(call.chunks) :
        /\ BodyStart + Len(FlattenChunks(FirstChunks(k))) <= p
        /\ \A j \in (k + 1)..Len(call.chunks) :
              BodyStart + Len(FlattenChunks(FirstChunks(j))) > p

\* ------------------------------------------------------------------ claims

\* C1: a body of N >= 0 chunks, each a valid hexadecimal size line, that
\* many payload bytes and CRLF, followed by a zero-size chunk line, is
\* decoded by readChunkedResponse to exactly the payloads in order, with no
\* error, whatever N, the chunk sizes (1, more than the buffer) and the
\* fragmentation of the stream into reads.
C1_ChunkedOutputIsPayloads ==
    (InChunked /\ Aligned /\ SinkOk /\ Buffered /\ Canonical
     /\ call.tail.kind \in ZeroTails) =>
        /\ pc # "panic"
        /\ IsPrefix(out, Shown \o Payloads(call.chunks))
        /\ pc = "done" =>
              ferr = "nil" /\ out = Shown \o Payloads(call.chunks)

C1_Witness ==
    /\ call.entry = "readChunkedResponse"
    /\ pc = "done"
    /\ Canonical
    /\ call.tail.kind \in ZeroTails
    /\ Len(call.chunks) >= 2
    /\ \E i \in 1..Len(call.chunks) : Len(call.chunks[i].data) = 1
    /\ \E i \in 1..Len(call.chunks) : Len(call.chunks[i].data) > BufSize
    /\ ferr = "nil"
    /\ out = Payloads(call.chunks)

\* C2: in identity mode, when the peer sends a finite byte sequence and
\* closes the stream, the sink receives exactly the bytes sent, for every
\* split of the stream into reads, the one that delivers the last bytes
\* together with end-of-stream included.
C2_IdentityReproducesStream ==
    (call.entry = "readNonChunkedResponse" /\ call.endErr = "EOF"
     /\ SinkOk /\ pc = "done") => out = resp

\* C3: with ShowOnlyHeaders set the sink never holds anything but bytes of
\* the response header block, whatever body the peer sends, chunked or not.
C3_HeadersOnlyNoBody ==
    (call.entry = "HttpGet" /\ call.flags.ShowOnlyHeaders /\ SinkOk) =>
        (out = <<>> \/ out = HeaderBlock)

C3_Witness ==
    /\ call.entry = "HttpGet"
    /\ call.flags.ShowOnlyHeaders
    /\ call.flags.ShowHeaders
    /\ call.hdr.chunked
    /\ pc = "done"
    /\ out = HeaderBlock
    /\ out # <<>>
    /\ wr > HeaderEnd(resp)
    /\ Len(call.chunks) >= 1

\* A well-formed response: terminated headers, a stream the peer closes,
\* and in chunked mode canonical chunks ended by a zero-size chunk line;
\* the output takes every Write.
C4_WellFormed ==
    /\ call.hdr.terminated
    /\ call.endErr = "EOF"
    /\ SinkOk
    /\ call.hdr.chunked => (Canonical /\ call.tail.kind \in ZeroTails)

\* Its header block followed by its decoded body.
C4_Expected ==
    call.hdr.bytes
    \o (IF call.hdr.chunked THEN Payloads(call.chunks)
        ELSE FlattenChunks(call.chunks) \o call.tail.bytes)

\* C4: with ShowHeaders set, ShowOnlyHeaders not, and a well-formed
\* response, the sink ends as the raw header block immediately followed by
\* the decoded body, and is a prefix of that at every state before.
C4_HeadersThenBody ==
    (/\ call.entry = "HttpGet"
     /\ call.flags.ShowHeaders
     /\ ~call.flags.ShowOnlyHeaders
     /\ C4_WellFormed) =>
        /\ IsPrefix(out, C4_Expected)
        /\ (pc = "done" /\ ret # "dialErr") => out = C4_Expected

C4_Witness ==
    /\ call.entry = "HttpGet"
    /\ call.flags.ShowHeaders
    /\ ~call.flags.ShowOnlyHeaders
    /\ C4_WellFormed
    /\ call.hdr.chunked
    /\ Len(call.chunks) >= 1
    /\ pc = "done"
    /\ out = C4_Expected

\* Each header string unchanged, followed by CRLF.
RECURSIVE VerbatimHeaders(_)
VerbatimHeaders(hs) ==
    IF hs = <<>> THEN <<>>
    ELSE Head(hs) \o CRLF \o VerbatimHeaders(Tail(hs))

\* C5: the request written is "GET <path> HTTP/1.1\r\n", "Host: <host>\r\n",
\* each custom header byte for byte followed by "\r\n", and
\* "Connection: close\r\n\r\n", for every header string, '%' included.
C5_RequestVerbatim ==
    (call.entry = "HttpGet" /\ pc \notin {"dial", "write"}
     /\ ret # "dialErr") =>
        request = GetLit \o call.path \o HttpLit \o HostLit \o call.host
                  \o CRLF \o VerbatimHeaders(call.flags.CustomHeaders)
                  \o ConnCloseLit

\* C6: when the stream holds a line that is exactly "\r\n", readHeaders
\* stops at the first one, returns no error and every line up to and
\* including it (just the terminator and a false flag when it comes first),
\* and consumes no byte of the stream cursor beyond it.
C6_HeadersStopAtTerminator ==
    (call.entry = "HttpGet" /\ HeaderEnd(resp) > 0) =>
        /\ ret \notin {"EOF", "ERR"}
        /\ pc = "readHeaders" => rd < HeaderEnd(resp)
        /\ pc = "dispatch" =>
              /\ rd = HeaderEnd(resp)
              /\ headers = HeaderBlock
              /\ HeaderBlock = CRLF => ~isChunked
        /\ (pc \in FramerPcs \cup {"done", "panic"} /\ ret # "dialErr") =>
              headers = HeaderBlock

C6_Witness ==
    /\ call.entry = "HttpGet"
    /\ pc = "dispatch"
    /\ headers = CRLF
    /\ ~isChunked
    /\ rd = 2
    /\ wr > rd

\* C7: when the stream ends or fails before a line "\r\n" was read,
\* readHeaders returns the error with an empty text and a false flag, and
\* HttpGet returns it, having written nothing to the sink, the partial
\* headers neither, and without a body framer.
C7_UnterminatedHeadersFail ==
    (call.entry = "HttpGet" /\ HeaderEnd(resp) = 0) =>
        /\ out = <<>>
        /\ ferr = "none"
        /\ pc \in {"dial", "write", "readHeaders", "done"}
        /\ (pc = "done" /\ ret # "dialErr") =>
              /\ ret = call.endErr
              /\ headers = <<>>
              /\ ~isChunked

C7_Witness ==
    /\ call.entry = "HttpGet"
    /\ HeaderEnd(resp) = 0
    /\ pc = "done"
    /\ ret = "EOF"
    /\ call.flags.ShowHeaders
    /\ chunkedSeen
    /\ hdrBuilder # <<>>
    /\ out = <<>>

\* C8: when conn.Write of the request fails, HttpGet returns a non-nil
\* error at once and does not go on to read the response.
C8_WriteErrorSurfaced ==
    writeFailed =>
        /\ wr = 0
        /\ pc = "done" => ret \notin {"nil", "none"}

\* Tails that start with a size line that is no unsigned base-16 integer.
MalformedTails == {"badHex", "extension", "plus", "minus"}

\* C9: a size line that, trimmed, is non-empty and no unsigned base-16
\* integer (a non-hex character, a chunk extension, a leading '+' or '-')
\* makes readChunkedResponse return an error at once: no chunk data is
\* read and nothing more is written.
C9_MalformedSizeAborts ==
    (InChunked /\ Aligned /\ SinkOk /\ Buffered
     /\ call.tail.kind \in MalformedTails) =>
        /\ pc # "panic"
        /\ IsPrefix(out, Shown \o Payloads(call.chunks))
        /\ rd <= BodyStart + Len(FlattenChunks(call.chunks))
                 + IndexByte(call.tail.bytes, LF)
        /\ pc = "done" => ferr = "syntax"

\* Tails whose chunk declares more bytes than the stream delivers.
ShortTails == {"noData", "shortData", "shortBigData"}

\* C10: when the stream ends or fails before the declared chunk bytes are
\* read, readChunkedResponse returns an error and the sink holds exactly
\* the payloads of the chunks read completely before; while a chunk's data
\* is being read, none of it is in the sink.
C10_ShortChunkNotWritten ==
    (InChunked /\ Aligned /\ SinkOk /\ Buffered) =>
        /\ pc = "readBytes" =>
              /\ Len(chunkData) < size
              /\ out = Shown \o Payloads(FirstChunks(ChunksBefore(rd)))
        /\ call.tail.kind \in ShortTails =>
              /\ pc # "panic"
              /\ IsPrefix(out, Shown \o Payloads(call.chunks))
              /\ pc = "done" =>
                    /\ ferr \in {"EOF", "ERR", "ErrUnexpectedEOF"}
                    /\ out = Shown \o Payloads(call.chunks)

C10_Witness ==
    /\ call.entry = "readChunkedResponse"
    /\ call.tail.kind = "shortBigData"
    /\ Len(call.chunks) >= 1
    /\ pc = "done"
    /\ ferr = "ErrUnexpectedEOF"
    /\ chunkData # <<>>
    /\ out = Payloads(call.chunks)

\* Where the first line of the tail ends in the stream.
TailLineEnd ==
    BodyStart + Len(FlattenChunks(call.chunks))
    + IndexByte(call.tail.bytes, LF)

\* C11: after a size line whose parsed value is zero, readChunkedResponse
\* returns nil at once: the stream cursor never moves past the end of that
\* line, and the sink holds the payloads of the chunks before it and no
\* byte that follows it (a CRLF, trailer headers), whatever the chunks'
\* size lines and trailer bytes look like.
C11_ZeroSizeEndsDecoding ==
    (InChunked /\ Aligned /\ SinkOk /\ Buffered
     /\ call.tail.kind \in ZeroTails) =>
        /\ rd <= TailLineEnd
        /\ IsPrefix(out, Shown \o Payloads(call.chunks))
        /\ pc \in {"done", "panic"} =>
              /\ pc = "done"
              /\ ferr = "nil"
              /\ size = 0
              /\ rd = TailLineEnd
              /\ out = Shown \o Payloads(call.chunks)

C11_Witness ==
    /\ InChunked
    /\ Aligned
    /\ call.tail.kind = "zeroTrailers"
    /\ \E i \in 1..Len(call.chunks) : ~call.chunks[i].canonical
    /\ pc = "done"
    /\ ferr = "nil"
    /\ rd = TailLineEnd
    /\ wr > rd
    /\ out = Shown \o Payloads(call.chunks)

\* C12: a connection that HttpGet opened is open while HttpGet runs and
\* closed once it has returned, on every exit: the normal end, a
\* header-read error, a body decode error, the headers-only return.
C12_ConnectionClosedOnReturn ==
    call.entry = "HttpGet" =>
        /\ pc \in {"write", "readHeaders", "dispatch"} \cup FramerPcs
              => connOpen
        /\ pc \in {"done", "panic"} => ~connOpen

C12_Witness ==
    /\ call.entry = "HttpGet"
    /\ pc = "done"
    /\ request # <<>>
    /\ ret = "EOF"
    /\ wr > 0
    /\ ~connOpen

\* C13: with ShowOnlyHeaders set, HttpGet returns right after the header
\* block without a body framer, and no byte after the terminator line is
\* read from the connection during the call, by the bufio.Reader neither.
C13_NoBodyByteRead ==
    (call.entry = "HttpGet" /\ call.flags.ShowOnlyHeaders
     /\ HeaderEnd(resp) > 0) =>
        /\ ferr = "none"
        /\ pc \notin FramerPcs \cup {"panic"}
        /\ wr <= HeaderEnd(resp)

\* C13, amended: with ShowOnlyHeaders set, HttpGet returns nil right after
\* the header block without a body framer; no byte after the terminator
\* line is consumed from the bufio.Reader, which may hold such bytes, read
\* from the connection together with the terminator line: at most its
\* capacity less the two bytes of that line.
C13_NoBodyByteConsumed ==
    (call.entry = "HttpGet" /\ call.flags.ShowOnlyHeaders
     /\ HeaderEnd(resp) > 0) =>
        /\ ferr = "none"
        /\ pc \notin FramerPcs \cup {"panic"}
        /\ rd <= HeaderEnd(resp)
        /\ wr <= HeaderEnd(resp) + BufSize - Len(CRLF)
        /\ (pc = "done" /\ ret # "dialErr") =>
              ret = "nil" /\ rd = HeaderEnd(resp)

C13_Witness ==
    /\ call.entry = "HttpGet"
    /\ call.flags.ShowOnlyHeaders
    /\ ~call.flags.ShowHeaders
    /\ pc = "done"
    /\ ret = "nil"
    /\ ferr = "none"
    /\ rd = HeaderEnd(resp)
    /\ wr = HeaderEnd(resp) + BufSize - Len(CRLF)

\* A line of the header block of stream s, the terminator line apart,
\* begins with TEChunked: the text stands at the start of the stream or
\* right after a LF, and ends before the terminator line.
HasChunkedLine(s) ==
    \E q \in 0..(HeaderEnd(s) - Len(CRLF) - Len(TEChunked)) :
        /\ q = 0 \/ s[q] = LF
        /\ SubSeq(s, q + 1, q + Len(TEChunked)) = TEChunked

\* C14: the flag readHeaders returns is true exactly when a line of the
\* header block before the terminator begins with "Transfer-Encoding:
\* chunked", in that case and at the start of the line; while the block is
\* read the flag only goes from false to true; once readHeaders has
\* returned it does not change, and the chunked framer runs exactly when it
\* is true.
C14_ChunkedFlag ==
    /\ [](call.entry = "HttpGet" =>
            /\ (pc \notin {"dial", "write", "readHeaders"}
                 /\ ret # "dialErr") =>
                    (isChunked <=> HasChunkedLine(resp))
            /\ pc \in {"readLine", "readBytes", "discardBytes", "panic"}
                  => isChunked
            /\ pc = "readNonChunked" => ~isChunked)
    /\ [][chunkedSeen => chunkedSeen']_vars
    /\ [][pc \notin {"dial", "write", "readHeaders"}
            => isChunked' = isChunked]_vars

C14_Witness ==
    /\ call.entry = "HttpGet"
    /\ call.hdr \in HdrVariants
    /\ HasChunkedLine(resp)
    /\ resp[Len(TEChunked) + 1] # CR
    /\ isChunked
    /\ pc = "readLine"

\* C15: header and body share one cursor and are not conflated.  The body
\* framer starts with the cursor at the end of the terminator line, however
\* far the bufio.Reader had read ahead; from there on what it takes in is
\* the stream from that position, byte for byte: the first size line being
\* read, the chunk data being read, the identity output.
C15_CursorHandedOver ==
    /\ [][(call.entry = "HttpGet" /\ pc = "dispatch" /\ pc' \in FramerPcs)
            => rd' = HeaderEnd(resp)]_vars
    /\ []((call.entry = "HttpGet" /\ HeaderEnd(resp) > 0) =>
            /\ pc \in FramerPcs \cup {"panic"} => rd >= HeaderEnd(resp)
            /\ (pc = "readLine" /\ size = 0) =>
                  acc = SubSeq(resp, HeaderEnd(resp) + 1, rd)
            /\ pc = "readBytes" =>
                  chunkData = SubSeq(resp, rd - Len(chunkData) + 1, rd)
            /\ (pc = "readNonChunked" /\ SinkOk) =>
                  out = (IF call.flags.ShowHeaders THEN HeaderBlock ELSE <<>>)
                        \o SubSeq(resp, HeaderEnd(resp) + 1, rd))

C15_Witness ==
    /\ call.entry = "HttpGet"
    /\ HeaderEnd(resp) > 0
    /\ pc = "readLine"
    /\ size = 0
    /\ acc # <<>>
    /\ rd = HeaderEnd(resp) + Len(acc)
    /\ wr > rd

\* Tails that start with a complete line that is empty once its terminator
\* and the white space around it are stripped.
EmptyTails == {"empty", "blank"}

\* C16: when the size line read is complete and empty after stripping,
\* readChunkedResponse returns nil: the cursor stays at the end of that
\* line and the sink holds the payloads written before, nothing more.
C16_EmptyLineEndsDecoding ==
    (InChunked /\ Aligned /\ SinkOk /\ Buffered
     /\ call.tail.kind \in EmptyTails) =>
        /\ rd <= TailLineEnd
        /\ IsPrefix(out, Shown \o Payloads(call.chunks))
        /\ pc \in {"done", "panic"} =>
              /\ pc = "done"
              /\ ferr = "nil"
              /\ rd = TailLineEnd
              /\ out = Shown \o Payloads(call.chunks)

C16_Witness ==
    /\ InChunked
    /\ Aligned
    /\ call.tail.kind = "blank"
    /\ Len(call.chunks) >= 1
    /\ pc = "done"
    /\ ferr = "nil"
    /\ rd = TailLineEnd
    /\ wr > rd
    /\ out = Shown \o Payloads(call.chunks)

\* Where chunk k of the input ends in the stream (k = 0: where the body
\* starts).
Boundary(k) == BodyStart + Len(FlattenChunks(FirstChunks(k)))

\* Tails whose chunk is followed by fewer than two bytes.
TrailerTails == {"noTrailer", "halfTrailer"}

\* C17: after a chunk is written exactly two bytes are consumed, whatever
\* they are, and the next size line starts right behind them; when the
\* stream ends or fails before both are read, readChunkedResponse returns
\* the error and the chunk written stays in the sink.
C17_TrailerIsTwoBytes ==
    (InChunked /\ Aligned /\ SinkOk /\ Buffered) =>
        /\ (pc = "discardBytes"
            /\ rd + need <= Boundary(Len(call.chunks))) =>
              /\ need \in 1..2
              /\ \E k \in 1..Len(call.chunks) :
                    /\ rd + need = Boundary(k)
                    /\ rd + need = Boundary(k - 1)
                           + Len(call.chunks[k].line \o call.chunks[k].data)
                           + 2
                    /\ out = Shown \o Payloads(FirstChunks(k))
        /\ (pc = "readLine"
            /\ rd - Len(acc) <= Boundary(Len(call.chunks))) =>
              \E k \in 0..Len(call.chunks) :
                    /\ rd - Len(acc) = Boundary(k)
                    /\ out = Shown \o Payloads(FirstChunks(k))
        /\ call.tail.kind \in TrailerTails =>
              /\ pc # "panic"
              /\ IsPrefix(out, Shown \o Payloads(call.chunks) \o <<"t">>)
              /\ pc = "done" =>
                    /\ ferr \in {"EOF", "ERR"}
                    /\ out = Shown \o Payloads(call.chunks) \o <<"t">>

C17_Witness ==
    /\ InChunked
    /\ Aligned
    /\ call.tail.kind = "halfTrailer"
    /\ \E i \in 1..Len(call.chunks) : call.chunks[i].trailer # CRLF
    /\ pc = "done"
    /\ ferr = "EOF"
    /\ need = 1
    /\ rd = Len(resp)
    /\ out = Shown \o Payloads(call.chunks) \o <<"t">>

\* The identity framer is running or has run.
InIdentity ==
    \/ pc = "readNonChunked"
    \/ /\ ferr # "none"
       /\ \/ call.entry = "readNonChunkedResponse"
          \/ call.entry = "HttpGet" /\ ~isChunked

\* The number of read errors printed.
ReadErrors == Cardinality({ i \in 1..Len(log) : log[i] = "read error" })

\* What the peer sent after the header block.
BodySent ==
    SubSeq(resp,
           (IF call.entry = "HttpGet" THEN HeaderEnd(resp) ELSE 0) + 1,
           Len(resp))

\* C18: in identity mode the first Read that returns an error other than
\* io.EOF ends the framer: it is printed once, nothing is read after it,
\* and what was written before it stays: every Write adds to the end of
\* the sink, which holds a prefix of the bytes the peer sent.
C18_ReadErrorStopsIdentity ==
    /\ [](InIdentity =>
            /\ ReadErrors <= 1
            /\ ReadErrors = 1 => pc = "done" /\ call.endErr = "ERR"
            /\ (pc = "done" /\ call.endErr = "ERR") => ReadErrors = 1
            /\ SinkOk =>
                  IsPrefix(out, (IF call.flags.ShowHeaders
                                 THEN HeaderBlock ELSE <<>>) \o BodySent))
    /\ [][pc = "readNonChunked" => IsPrefix(out, out')]_vars
    /\ [][ReadErrors = 1 => UNCHANGED <<rd, wr, out>>]_vars

C18_Witness ==
    /\ InIdentity
    /\ call.endErr = "ERR"
    /\ pc = "done"
    /\ log = <<"read error">>
    /\ Len(BodySent) > BufSize
    /\ out = BodySent
    /\ wr = Len(resp)

\* C19: once readHeaders has succeeded HttpGet returns nil, whatever the
\* body framer meets (a malformed size line, a short chunk, missing trailer
\* bytes, a failed Write, a read error); HttpGet returns an error only when
\* the dial or readHeaders fails.
C19_BodyErrorsNotPropagated ==
    call.entry = "HttpGet" =>
        /\ (pc \in {"done", "panic"} /\ headers # <<>>) =>
              pc = "done" /\ ret = "nil"
        /\ (pc = "done" /\ ret # "nil") =>
              ret = "dialErr" \/ (HeaderEnd(resp) = 0 /\ ret = call.endErr)

\* How far a call is from its end at most: the places still ahead of it,
\* the bytes the cursor and the transport have not passed yet, and the end
\* of the stream not yet met.
StepsLeft ==
    (CASE pc = "dial" -> 6
       [] pc = "write" -> 5
       [] pc = "readHeaders" -> 4
       [] pc = "dispatch" -> 3
       [] pc \in FramerPcs -> 2
       [] OTHER -> 0)
    + 2 * (Len(resp) - rd) + (Len(resp) - wr)
    + (IF berr = "nil" THEN 1 ELSE 0)

\* C20: on a stream that ends, by the peer closing it or by a transport
\* error, every call comes to its end, a return or the panic of a negative
\* chunk size: every step brings the end nearer, so a call takes no more
\* steps than StepsLeft counts at its start.  No loop goes round without
\* consuming: a pass of readHeaders' loop that adds a line leaves the
\* cursor behind that line, a pass of readNonChunkedResponse's loop that
\* goes on moves the cursor, and in readChunkedResponse the size line read
\* moves the cursor past the place the pass started at, and the chunk data
\* and the trailer never move it back.
C20_LoopsTerminate ==
    /\ [](StepsLeft >= 0)
    /\ [][StepsLeft' < StepsLeft]_vars
    /\ [][(pc = "readHeaders" /\ hdrBuilder' # hdrBuilder) =>
            (Len(hdrBuilder') > Len(hdrBuilder)
             /\ rd' = Len(hdrBuilder'))]_vars
    /\ [][(pc = "readNonChunked" /\ pc' = "readNonChunked") =>
            rd' > rd]_vars
    /\ [][(pc = "readLine" /\ pc' = "readBytes") =>
            rd' > rd - Len(acc)]_vars
    /\ [][(pc \in {"readLine", "readBytes", "discardBytes"}) =>
            (rd' >= rd /\ rd' - Len(acc') >= rd - Len(acc))]_vars

C20_Witness ==
    /\ call.entry = "readChunkedResponse"
    /\ call.endErr = "ERR"
    /\ Len(call.chunks) = MaxChunks
    /\ call.tail.kind = "partialLine"
    /\ pc = "done"
    /\ ferr = "ERR"
    /\ rd = Len(resp)

\* C21: readLine takes from the reader it is given exactly one line, up to
\* and including its LF, so that the chunk data is read from the first
\* payload byte on: when readLine returns a complete line, the reader
\* given stands right behind the first LF at or after the place the line
\* started at, for a *bufio.Reader and for a plain reader that readLine
\* wraps anew on each call.
C21_ReadLineTakesOneLine ==
    [][(pc = "readLine" /\ pc' # "readLine" /\ ferr' \notin {"EOF", "ERR"})
        => rd' = (rd - Len(acc))
                 + IndexByte(SubSeq(resp, rd - Len(acc) + 1, Len(resp)),
                             LF)]_vars

====
